---- MODULE Spec2Model ----
(***************************************************************************)
(* Model of plugins/inventory/yandex_cloud.py: InventoryModule.parse and   *)
(* its helpers.  One run of parse is a sequential walk cloud -> folder ->  *)
(* instance.  The process blocks in every HTTP call, so a state of the     *)
(* model is a point where parse waits for a response (inflight holds the   *)
(* request) or stands between two process_instance calls.                  *)
(*                                                                         *)
(* Names are sequences of tokens: a token is a run of word characters      *)
(* ("web", "env") or one separator character ("-", "_").                   *)
(* The inventory object (ansible InventoryData) is the record `inv`; its   *)
(* methods are modelled by what the plugin's calls rely on: additions are  *)
(* idempotent, add_child refuses a group that would become its own         *)
(* ancestor.  Only what the plugin adds is tracked.                        *)
(* Host names and group names are drawn from disjoint alphabets.           *)
(*                                                                         *)
(* The service: within one run a URL that is asked again gets the answer   *)
(* it got before (api); a folder's name is unique within its cloud and an  *)
(* instance's name within its folder; any request may fail.  The signed    *)
(* assertion that get_iam_token posts (lines 89-101) is not modelled.      *)
(***************************************************************************)
EXTENDS Integers, Sequences, FiniteSets, TLC

\* ------------------------------------------------------------------ bounds
\* longest api.cloud_ids list of the configuration
MaxClouds == 3
\* folders plus instances the API reveals during one run
MaxResources == 4

\* ------------------------------------------------------------- input sets
CloudIds == {"c1", "c2"}
CredKeys == {"service_account_id", "private_key", "key_id"}
CloudRawNames == { <<"web">>, <<"prod", "-", "eu">> }
FolderRawNames == { <<"web">>, <<"web", "-", "app">> }
Vm01 == <<"vm", "-", "01">>
Vm02 == <<"vm", "-", "02">>
EnvTier == << << <<"env">>, <<"prod">> >>, << <<"tier">>, <<"front">> >> >>
ManagedBy == << << <<"managed", "-", "by">>, <<"x">> >>,
                << <<"managed", "_", "by">>, <<"y">> >> >>
\* what an element of the instance list can look like, address aside
InstanceShapes ==
    { [name |-> Vm01, has_labels |-> FALSE, labels |-> <<>>],
      [name |-> Vm01, has_labels |-> TRUE, labels |-> EnvTier],
      [name |-> Vm02, has_labels |-> TRUE, labels |-> <<>>],
      [name |-> Vm02, has_labels |-> TRUE, labels |-> ManagedBy] }
IamTokens == {"", "iam1"}
Statuses == {"ok", "http_error", "network_error"}

VARIABLES
    pc,          \* where parse stands
    error,       \* the exception that ended parse, "" when none
    creds,       \* the locals service_account_id, private_key, key_id
    iam_token,   \* the local iam_token
    cloud_ids,   \* config['api']['cloud_ids']
    ci,          \* index of the current cloud_id
    cloud_name,
    folders,     \* result of get_folders for the current cloud
    fi,          \* index of the current folder
    folder_name,
    instances,   \* result of get_instances for the current folder
    ii,          \* index of the current instance
    inv,         \* self.inventory
    inflight,    \* HTTP requests sent and not yet answered
    trace,       \* requests and top-level inventory calls, in order
    api,         \* what the service has answered so far, by URL
    discovered,  \* folders and instances revealed so far
    failed,      \* <<snapshot>> taken when a GET failed, <<>> before
    tokenFailed, \* the token POST met a network error or a non-2xx status
    last         \* the process_instance call that has just returned

vars == <<pc, error, creds, iam_token, cloud_ids, ci, cloud_name, folders, fi,
          folder_name, instances, ii, inv, inflight, trace, api, discovered,
          failed, tokenFailed, last>>

Range(s) == { s[i] : i \in DOMAIN s }

\* ----------------------------------------------------- to_safe_group_name
InvalidChars == {"-", " "}

to_safe_group_name(name) ==
    [i \in DOMAIN name |-> IF name[i] \in InvalidChars THEN "_" ELSE name[i]]

\* --------------------------------------------------------- self.inventory
EmptyInventory ==
    [groups |-> {}, hosts |-> {}, children |-> {}, members |-> {},
     vars |-> {}, err |-> ""]

RECURSIVE Closure(_, _)
Closure(E, S) ==
    LET T == S \cup { e[1] : e \in { x \in E : x[2] \in S } }
    IN IF T = S THEN S ELSE Closure(E, T)

\* the groups above g
Ancestors(i, g) == Closure(i.children, {g}) \ {g}

\* every call is skipped once an exception is on its way up (i.err # "")
add_group(i, group) ==
    IF i.err # "" THEN i ELSE [i EXCEPT !.groups = @ \cup {group}]

add_host(i, host) ==
    IF i.err # "" THEN i ELSE [i EXCEPT !.hosts = @ \cup {host}]

\* mutant: a value once set is kept
set_variable_KeepFirst(i, host, ip) ==
    IF i.err # "" THEN i
    ELSE IF \E v \in i.vars : v[1] = host THEN i
    ELSE [i EXCEPT !.vars = @ \cup { <<host, ip>> }]

set_variable(i, host, ip) ==
    IF i.err # "" THEN i
    ELSE [i EXCEPT !.vars = { v \in @ : v[1] # host } \cup { <<host, ip>> }]

add_child(i, group, child) ==
    IF i.err # "" THEN i
    ELSE IF group \notin i.groups THEN [i EXCEPT !.err = "AnsibleError"]
    ELSE IF child \in i.groups
         THEN IF group = child THEN [i EXCEPT !.err = "Exception"]
              ELSE IF <<group, child>> \in i.children THEN i
              ELSE IF child \in Ancestors(i, group) \cup {group}
                   THEN [i EXCEPT !.err = "AnsibleError"]
              ELSE [i EXCEPT !.children = @ \cup { <<group, child>> }]
    ELSE IF child \in i.hosts
         THEN [i EXCEPT !.members = @ \cup { <<group, child>> }]
    ELSE [i EXCEPT !.err = "AnsibleError"]

\* ------------------------------------------------- InventoryModule helpers
create_cloud_group(i, cname) == add_group(i, cname)

create_folder_group(i, fname, cname) ==
    add_child(add_group(i, fname), cname, fname)

create_label_group(i, label_group_folder, fname) ==
    add_child(add_group(i, label_group_folder), fname, label_group_folder)

add_host_to_group(i, host, group) == add_child(i, group, host)

\* mutant: the loop runs over the values of the mapping
IterLabels_Values(labels) == [k \in DOMAIN labels |-> labels[k][2]]

\* `for label in instance['labels']`: iterating a mapping yields its keys
IterLabels(labels) == [k \in DOMAIN labels |-> labels[k][1]]

LabelGroupName(fname, label) == fname \o <<"_">> \o to_safe_group_name(label)

RECURSIVE LabelLoop(_, _, _, _)
LabelLoop(i, labels, name, fname) ==
    IF labels = <<>> THEN i
    ELSE LET lgf == LabelGroupName(fname, Head(labels))
         IN LabelLoop(add_host_to_group(create_label_group(i, lgf, fname), name, lgf),
                      Tail(labels), name, fname)

\* mutant: the else of line 181 is lost, the host always joins the folder group
process_instance_AlsoFolder(i, instance, fname) ==
    LET name == instance.name
        ip == instance.address
        i1 == set_variable(add_host(i, name), name, ip)
    IN add_host_to_group(
           IF instance.has_labels
           THEN LabelLoop(i1, IterLabels(instance.labels), name, fname)
           ELSE i1,
           name, fname)

process_instance(i, instance, fname) ==
    LET name == instance.name
        ip == instance.address
        i1 == set_variable(add_host(i, name), name, ip)
    IN IF instance.has_labels
       THEN LabelLoop(i1, IterLabels(instance.labels), name, fname)
       ELSE add_host_to_group(i1, name, fname)

\* ------------------------------------------------------------------- URLs
TokenUrl == <<"iam/v1/tokens">>
CloudUrl(cloud_id) == <<"clouds/", cloud_id>>
FoldersUrl(cloud_id) == <<"folders/?cloudId=", cloud_id>>
FolderUrl(folder_id) == <<"folders/", folder_id>>
InstancesUrl(folder_id) == <<"instances/?folderId=", folder_id>>

\* mutant: the header is built before the token is known
Headers_NoToken(token) == <<"Bearer", "">>

Headers(token) == <<"Bearer", token>>

PostEvent == [op |-> "POST", arg |-> TokenUrl, auth |-> <<>>]
GetEvent(url, headers) == [op |-> "GET", arg |-> url, auth |-> headers]
CallEvent(op, arg) == [op |-> op, arg |-> arg, auth |-> <<>>]

\* mutant: the exception is caught and dropped
api_get_request_Swallow(status, body) == [raised |-> "", json |-> body]

\* api_get_request: raise_for_status and every RequestException end in
\* AnsibleError, otherwise the decoded body is returned
api_get_request(status, body) ==
    IF status # "ok" THEN [raised |-> "AnsibleError", json |-> body]
    ELSE [raised |-> "", json |-> body]

\* response.get(key, [])
JsonGetList(body) == IF body.present THEN body.items ELSE <<>>

\* ------------------------------------------------------------- the service
Known(url) == url \in DOMAIN api

NameBodies(url, names) ==
    IF Known(url) THEN {api[url]} ELSE { [name |-> n] : n \in names }

\* a folder's name is unique within its cloud
SiblingNames(folder_id) ==
    { api[u].name : u \in { v \in DOMAIN api :
          /\ v[1] = "folders/"
          /\ v[2][1] = folder_id[1]
          /\ v[2] # folder_id } }

ListBody(items) == [present |-> items # <<>>, items |-> items]

FolderLists(cloud_id, n) ==
    [k \in 1..n |-> [id |-> <<cloud_id, k>>]]

RECURSIVE InstanceLists(_, _)
InstanceLists(folder_id, n) ==
    IF n = 0 THEN { <<>> }
    ELSE { Append(s, [name |-> sh.name, address |-> <<folder_id, n>>,
                      has_labels |-> sh.has_labels, labels |-> sh.labels]) :
             <<s, sh>> \in { p \in InstanceLists(folder_id, n - 1) \X InstanceShapes :
                               \A k \in DOMAIN p[1] : p[1][k].name # p[2].name } }

FoldersBodies(url, cloud_id) ==
    IF Known(url) THEN {api[url]}
    ELSE { ListBody(FolderLists(cloud_id, n)) :
             n \in { m \in 0..(MaxResources - discovered) :
                        m <= Cardinality(FolderRawNames) } }

InstancesBodies(url, folder_id) ==
    IF Known(url) THEN {api[url]}
    ELSE UNION { { ListBody(l) : l \in InstanceLists(folder_id, n) } :
                   n \in 0..(MaxResources - discovered) }

Memo(url, body) == IF Known(url) THEN api ELSE (url :> body) @@ api

Reveal(url, body) == IF Known(url) THEN discovered ELSE discovered + Len(body.items)

\* ----------------------------------------------------------- credentials
\* os.getenv(K) or config['api'][k]
Resolve(envv, cfg, key) ==
    IF envv # "" THEN [raised |-> "", value |-> envv]
    ELSE IF key \notin DOMAIN cfg THEN [raised |-> "KeyError", value |-> ""]
    ELSE [raised |-> "", value |-> cfg[key]]

Unassigned == "unassigned"
NoCreds == [k \in CredKeys |-> Unassigned]

\* mutant: the test of key_id (lines 53-54) is missing
CheckCredentials_NoKeyIdTest(env, cfg) ==
    LET sa == Resolve(env["service_account_id"], cfg, "service_account_id")
        pk == Resolve(env["private_key"], cfg, "private_key")
        kid == Resolve(env["key_id"], cfg, "key_id")
    IN IF sa.raised # "" \/ sa.value = "" \/ pk.raised # "" \/ pk.value = ""
       THEN [error |-> "AnsibleError",
             creds |-> [NoCreds EXCEPT !["service_account_id"] = sa.value]]
       ELSE [error |-> "",
             creds |-> [service_account_id |-> sa.value,
                        private_key |-> pk.value, key_id |-> kid.value]]

\* lines 46-54: resolve and test the three credentials in turn
CheckCredentials(env, cfg) ==
    LET sa == Resolve(env["service_account_id"], cfg, "service_account_id")
        pk == Resolve(env["private_key"], cfg, "private_key")
        kid == Resolve(env["key_id"], cfg, "key_id")
    IN IF sa.raised # "" THEN [error |-> sa.raised, creds |-> NoCreds]
       ELSE IF sa.value = ""
            THEN [error |-> "AnsibleError",
                  creds |-> [NoCreds EXCEPT !["service_account_id"] = sa.value]]
       ELSE IF pk.raised # ""
            THEN [error |-> pk.raised,
                  creds |-> [NoCreds EXCEPT !["service_account_id"] = sa.value]]
       ELSE IF pk.value = ""
            THEN [error |-> "AnsibleError",
                  creds |-> [NoCreds EXCEPT !["service_account_id"] = sa.value,
                                            !["private_key"] = pk.value]]
       ELSE IF kid.raised # ""
            THEN [error |-> kid.raised,
                  creds |-> [NoCreds EXCEPT !["service_account_id"] = sa.value,
                                            !["private_key"] = pk.value]]
       ELSE IF kid.value = ""
            THEN [error |-> "AnsibleError",
                  creds |-> [service_account_id |-> sa.value,
                             private_key |-> pk.value, key_id |-> kid.value]]
       ELSE [error |-> "",
             creds |-> [service_account_id |-> sa.value,
                        private_key |-> pk.value, key_id |-> kid.value]]

EnvChoices == [CredKeys -> {"", "set"}]
ConfigChoices == UNION { [K -> {"", "set"}] : K \in SUBSET CredKeys }

RECURSIVE SeqsUpTo(_, _)
SeqsUpTo(S, n) ==
    IF n = 0 THEN { <<>> }
    ELSE LET shorter == SeqsUpTo(S, n - 1)
         IN shorter \cup { Append(s, x) : <<s, x>> \in shorter \X S }

\* cloud ids are opaque: "c1" stands for whichever id the list names first
CloudIdLists ==
    { s \in SeqsUpTo(CloudIds, MaxClouds) : s = <<>> \/ s[1] = "c1" }

\* ----------------------------------------------------------- control flow
NoCall == [returned |-> FALSE, name |-> <<>>, has_labels |-> FALSE,
           labels |-> <<>>, folder_name |-> <<>>, fresh |-> FALSE]

\* the next point where parse waits, as [pc, ci, fi, ii, get]: get holds the
\* URL of the GET that is sent on the way, if any
NextCloud(k) ==
    IF k <= Len(cloud_ids)
    THEN [pc |-> "cloud_name", ci |-> k, fi |-> 0, ii |-> 0,
          get |-> <<CloudUrl(cloud_ids[k])>>]
    ELSE [pc |-> "done", ci |-> ci, fi |-> fi, ii |-> ii, get |-> <<>>]

NextFolder(fs, k) ==
    IF k <= Len(fs)
    THEN [pc |-> "folder_name", ci |-> ci, fi |-> k, ii |-> 0,
          get |-> <<FolderUrl(fs[k].id)>>]
    ELSE NextCloud(ci + 1)

\* mutant: the loop over the instances ends after its first turn
NextInstance_OnlyFirst(is, k) ==
    IF k <= Len(is) /\ k <= 1
    THEN [pc |-> "process", ci |-> ci, fi |-> fi, ii |-> k, get |-> <<>>]
    ELSE NextFolder(folders, fi + 1)

NextInstance(is, k) ==
    IF k <= Len(is)
    THEN [pc |-> "process", ci |-> ci, fi |-> fi, ii |-> k, get |-> <<>>]
    ELSE NextFolder(folders, fi + 1)

Move(p, events, token) ==
    /\ pc' = p.pc
    /\ ci' = p.ci
    /\ fi' = p.fi
    /\ ii' = p.ii
    /\ inflight' = { GetEvent(u, Headers(token)) : u \in Range(p.get) }
    /\ trace' = trace \o events \o [k \in DOMAIN p.get |-> GetEvent(p.get[k], Headers(token))]
    /\ error' = error

Raise(kind, events) ==
    /\ pc' = "error"
    /\ error' = kind
    /\ inflight' = {}
    /\ trace' = trace \o events
    /\ UNCHANGED <<ci, fi, ii>>

GetFails(status) ==
    failed' = IF status # "ok" /\ failed = <<>>
              THEN << [trace |-> trace, inv |-> inv] >> ELSE failed

Init ==
    /\ pc = "start"
    /\ error = ""
    /\ creds = NoCreds
    /\ iam_token = ""
    /\ cloud_ids = <<>>
    /\ ci = 0
    /\ cloud_name = <<>>
    /\ folders = <<>>
    /\ fi = 0
    /\ folder_name = <<>>
    /\ instances = <<>>
    /\ ii = 0
    /\ inv = EmptyInventory
    /\ inflight = {}
    /\ trace = <<>>
    /\ api = <<>>
    /\ discovered = 0
    /\ failed = <<>>
    /\ tokenFailed = FALSE
    /\ last = NoCall

\* parse, lines 43-55: read the configuration, check the credentials and send
\* the token request
ParseStart ==
    /\ pc = "start"
    /\ \E env \in EnvChoices, cfg \in ConfigChoices, ids \in CloudIdLists :
         LET r == CheckCredentials(env, cfg)
         IN /\ creds' = r.creds
            /\ cloud_ids' = ids
            /\ IF r.error # ""
               THEN Raise(r.error, <<>>)
               ELSE /\ pc' = "token"
                    /\ inflight' = {PostEvent}
                    /\ trace' = Append(trace, PostEvent)
                    /\ UNCHANGED <<error, ci, fi, ii>>
    /\ UNCHANGED <<iam_token, cloud_name, folders, folder_name, instances, inv,
                   api, discovered, failed, tokenFailed, last>>

\* get_iam_token, lines 102-103, and parse, lines 56-63: the answer to the POST.
\* requests.post is not guarded: a network error leaves as the requests
\* exception; a non-2xx body has no 'iamToken', so line 103 raises KeyError;
\* an empty token raises AnsibleError at line 57.
GetIamToken ==
    /\ pc = "token"
    /\ inflight = {PostEvent}
    /\ \E status \in Statuses, token \in IamTokens :
         /\ tokenFailed' = (status # "ok")
         /\ IF status = "network_error"
            THEN Raise("ConnectionError", <<>>) /\ UNCHANGED <<iam_token, api>>
            ELSE IF status = "http_error"
            THEN Raise("KeyError", <<>>) /\ UNCHANGED <<iam_token, api>>
            ELSE /\ iam_token' = token
                 /\ api' = (TokenUrl :> [iamToken |-> token]) @@ api
                 /\ IF token = ""
                    THEN Raise("AnsibleError", <<>>)
                    ELSE Move(NextCloud(1), <<>>, token)
    /\ UNCHANGED <<creds, cloud_ids, cloud_name, folders, folder_name, instances,
                   inv, discovered, failed, last>>

\* get_cloud_name and create_cloud_group, lines 65-69
GetCloudName ==
    /\ pc = "cloud_name"
    /\ inflight # {}
    /\ LET url == CloudUrl(cloud_ids[ci])
       IN \E status \in Statuses, body \in NameBodies(url, CloudRawNames) :
            LET r == api_get_request(status, body)
                name == to_safe_group_name(r.json.name)
                i2 == create_cloud_group(inv, name)
            IN /\ GetFails(status)
               /\ IF r.raised # ""
                  THEN Raise(r.raised, <<>>) /\ UNCHANGED <<cloud_name, inv, api>>
                  ELSE /\ cloud_name' = name
                       /\ inv' = i2
                       /\ api' = Memo(url, body)
                       /\ IF i2.err # ""
                          THEN Raise(i2.err, <<>>)
                          ELSE Move([pc |-> "folders", ci |-> ci, fi |-> 0, ii |-> 0,
                                     get |-> <<FoldersUrl(cloud_ids[ci])>>],
                                    <<CallEvent("create_cloud_group", <<name>>)>>,
                                    iam_token)
    /\ last' = NoCall
    /\ UNCHANGED <<creds, iam_token, cloud_ids, folders, folder_name, instances,
                   discovered, tokenFailed>>

\* get_folders, lines 69-71
GetFolders ==
    /\ pc = "folders"
    /\ inflight # {}
    /\ LET url == FoldersUrl(cloud_ids[ci])
       IN \E status \in Statuses, body \in FoldersBodies(url, cloud_ids[ci]) :
            LET r == api_get_request(status, body)
                fs == JsonGetList(r.json)
            IN /\ GetFails(status)
               /\ IF r.raised # ""
                  THEN Raise(r.raised, <<>>) /\ UNCHANGED <<folders, api, discovered>>
                  ELSE /\ folders' = fs
                       /\ api' = Memo(url, body)
                       /\ discovered' = Reveal(url, body)
                       /\ Move(NextFolder(fs, 1), <<>>, iam_token)
    /\ last' = NoCall
    /\ UNCHANGED <<creds, iam_token, cloud_ids, cloud_name, folder_name, instances,
                   inv, tokenFailed>>

\* get_folder_name and create_folder_group, lines 72-78
GetFolderName ==
    /\ pc = "folder_name"
    /\ inflight # {}
    /\ LET folder_id == folders[fi].id
           url == FolderUrl(folder_id)
       IN \E status \in Statuses, body \in NameBodies(url, FolderRawNames \ SiblingNames(folder_id)) :
            LET r == api_get_request(status, body)
                name == to_safe_group_name(r.json.name)
                i2 == create_folder_group(inv, name, cloud_name)
            IN /\ GetFails(status)
               /\ IF r.raised # ""
                  THEN Raise(r.raised, <<>>) /\ UNCHANGED <<folder_name, inv, api>>
                  ELSE /\ folder_name' = name
                       /\ inv' = i2
                       /\ api' = Memo(url, body)
                       /\ IF i2.err # ""
                          THEN Raise(i2.err, <<>>)
                          ELSE Move([pc |-> "instances", ci |-> ci, fi |-> fi, ii |-> 0,
                                     get |-> <<InstancesUrl(folder_id)>>],
                                    <<CallEvent("create_folder_group", <<name, cloud_name>>)>>,
                                    iam_token)
    /\ last' = NoCall
    /\ UNCHANGED <<creds, iam_token, cloud_ids, cloud_name, folders, instances,
                   discovered, tokenFailed>>

\* get_instances, lines 78-81
GetInstances ==
    /\ pc = "instances"
    /\ inflight # {}
    /\ LET folder_id == folders[fi].id
           url == InstancesUrl(folder_id)
       IN \E status \in Statuses, body \in InstancesBodies(url, folder_id) :
            LET r == api_get_request(status, body)
                is == JsonGetList(r.json)
            IN /\ GetFails(status)
               /\ IF r.raised # ""
                  THEN Raise(r.raised, <<>>) /\ UNCHANGED <<instances, api, discovered>>
                  ELSE /\ instances' = is
                       /\ api' = Memo(url, body)
                       /\ discovered' = Reveal(url, body)
                       /\ Move(NextInstance(is, 1), <<>>, iam_token)
    /\ last' = NoCall
    /\ UNCHANGED <<creds, iam_token, cloud_ids, cloud_name, folders, folder_name,
                   inv, tokenFailed>>

\* one turn of the loop of lines 81-83: process_instance(instance, folder_name)
ProcessInstance ==
    /\ pc = "process"
    /\ LET instance == instances[ii]
           i2 == process_instance(inv, instance, folder_name)
           call == CallEvent("process_instance", <<instance.address, folder_name>>)
       IN /\ inv' = i2
          /\ last' = [returned |-> i2.err = "", name |-> instance.name,
                      has_labels |-> instance.has_labels, labels |-> instance.labels,
                      folder_name |-> folder_name,
                      fresh |-> instance.name \notin inv.hosts]
          /\ IF i2.err # ""
             THEN Raise(i2.err, <<call>>)
             ELSE Move(NextInstance(instances, ii + 1), <<call>>, iam_token)
    /\ UNCHANGED <<creds, iam_token, cloud_ids, cloud_name, folders, folder_name,
                   instances, api, discovered, failed, tokenFailed>>

Next ==
    \/ ParseStart
    \/ GetIamToken
    \/ GetCloudName
    \/ GetFolders
    \/ GetFolderName
    \/ GetInstances
    \/ ProcessInstance

Spec == Init /\ [][Next]_vars

\* ------------------------------------------- parse's loops as a function
\* lines 63-83 replayed over the answers the service has given (api)
RECURSIVE FoldInstances(_, _, _)
FoldInstances(i, is, fname) ==
    IF is = <<>> THEN i
    ELSE FoldInstances(process_instance(i, Head(is), fname), Tail(is), fname)

RECURSIVE FoldFolders(_, _, _)
FoldFolders(i, fs, cname) ==
    IF fs = <<>> THEN i
    ELSE LET folder_id == Head(fs).id
             fname == to_safe_group_name(api[FolderUrl(folder_id)].name)
             i2 == create_folder_group(i, fname, cname)
             is == JsonGetList(api[InstancesUrl(folder_id)])
         IN FoldFolders(FoldInstances(i2, is, fname), Tail(fs), cname)

RECURSIVE FoldClouds(_, _)
FoldClouds(i, ids) ==
    IF ids = <<>> THEN i
    ELSE LET cname == to_safe_group_name(api[CloudUrl(Head(ids))].name)
             i2 == create_cloud_group(i, cname)
             fs == JsonGetList(api[FoldersUrl(Head(ids))])
         IN FoldClouds(FoldFolders(i2, fs, cname), Tail(ids))

RunOver(ids) == FoldClouds(EmptyInventory, ids)

\* ------------------------------------------------------- claim vocabulary
HostParents(h) == { m[1] : m \in { x \in inv.members : x[2] = h } }
GroupParents(g) == { e[1] : e \in { x \in inv.children : x[2] = g } }
SanitizedKeys(labels) == { to_safe_group_name(labels[k][1]) : k \in DOMAIN labels }
KeyGroups(fname, labels) == { fname \o <<"_">> \o l : l \in SanitizedKeys(labels) }
Posts == { k \in DOMAIN trace : trace[k].op = "POST" }
Gets == { k \in DOMAIN trace : trace[k].op = "GET" }
IsPrefix(s, t) == Len(s) <= Len(t) /\ \A k \in DOMAIN s : s[k] = t[k]

\* the list without its repeated ids, each id at its first / last occurrence
DedupFirst(s) ==
    LET keep == { k \in DOMAIN s : \A j \in 1..(k - 1) : s[j] # s[k] }
        F[k \in 0..Len(s)] ==
            IF k = 0 THEN <<>> ELSE IF k \in keep THEN Append(F[k - 1], s[k]) ELSE F[k - 1]
    IN F[Len(s)]

DedupLast(s) ==
    LET keep == { k \in DOMAIN s : \A j \in (k + 1)..Len(s) : s[j] # s[k] }
        F[k \in 0..Len(s)] ==
            IF k = 0 THEN <<>> ELSE IF k \in keep THEN Append(F[k - 1], s[k]) ELSE F[k - 1]
    IN F[Len(s)]

HasDuplicates(s) == \E j, k \in DOMAIN s : j # k /\ s[j] = s[k]

Structure(i) == <<i.groups, i.hosts, i.children, i.members>>

\* ------------------------------------------------------------------ claims
WebProd == <<"web", "_", "prod">>
WebFront == <<"web", "_", "front">>
WebEnv == <<"web", "_", "env">>
WebTier == <<"web", "_", "tier">>

\* C1: after process_instance has returned for an instance that carries zero
\* labels (labels absent, or present and empty) the host is a child of its
\* folder group and of no other group.  Stated for a host name the run meets
\* for the first time, so that no earlier instance has a part in it.
C1_ZeroLabelsHostInFolderGroup ==
    (last.returned /\ last.fresh /\ last.labels = <<>>)
        => HostParents(last.name) = {last.folder_name}

C4_MissingCredentialAbortsFirst ==
    (pc # "start" /\ \E k \in CredKeys : creds[k] # "set")
        => /\ pc = "error"
           /\ error \in {"AnsibleError", "KeyError"}
           /\ trace = <<>>
           /\ inflight = {}
           /\ inv = EmptyInventory

C4_Witness ==
    /\ pc = "error"
    /\ creds["service_account_id"] = "set"
    /\ creds["private_key"] = "set"
    /\ creds["key_id"] = ""
    /\ trace = <<>>

\* C5: once a GET has failed (non-2xx status or network error), parse has
\* ended in AnsibleError, no request is outstanding, and requests and inventory
\* are what they were when the failing request was answered.
C5_GetFailureAbortsRun ==
    failed # <<>>
        => /\ pc = "error"
           /\ error = "AnsibleError"
           /\ inflight = {}
           /\ trace = failed[1].trace
           /\ inv = failed[1].inv

C5_Witness ==
    /\ failed # <<>>
    /\ pc = "error"
    /\ inv.hosts # {}
    /\ ci < Len(cloud_ids)
    /\ trace[Len(trace)].op = "GET"

\* C6: a network error or a non-success status on the token POST ends the run
\* in the wrapped domain error (AnsibleError), before any GET.
C6_TokenFailureIsWrapped ==
    tokenFailed => (pc = "error" /\ error = "AnsibleError" /\ Gets = {})

\* C9: a run sends at most one token POST and it is the first request; every
\* GET follows it and carries the token it returned as bearer; a completed run
\* has sent exactly one.
C9_OneTokenForAllGets ==
    /\ Cardinality(Posts) <= 1
    /\ trace # <<>> => Posts = {1}
    /\ pc = "done" => Posts = {1}
    /\ \A k \in Gets :
          /\ k > 1
          /\ TokenUrl \in DOMAIN api
          /\ trace[k].auth = <<"Bearer", api[TokenUrl].iamToken>>
          /\ api[TokenUrl].iamToken # ""

C9_Witness ==
    /\ pc = "done"
    /\ Cardinality(Gets) >= 6
    /\ Cardinality(Posts) = 1

\* the clouds, folders and labelled instances the run has walked, from api
CloudGroupOf(cloud_id) == to_safe_group_name(api[CloudUrl(cloud_id)].name)
FolderGroupOf(folder_id) == to_safe_group_name(api[FolderUrl(folder_id)].name)
FoldersOf(cloud_id) == Range(JsonGetList(api[FoldersUrl(cloud_id)]))
InstancesOf(folder_id) == Range(JsonGetList(api[InstancesUrl(folder_id)]))
SanitizedCloudNames == { CloudGroupOf(c) : c \in Range(cloud_ids) }

C8_GroupsFormForest ==
    pc = "done"
        => \A c \in Range(cloud_ids) :
              /\ GroupParents(CloudGroupOf(c)) = {}
              /\ \A f \in FoldersOf(c) :
                    /\ GroupParents(FolderGroupOf(f.id)) = {CloudGroupOf(c)}
                    /\ \A x \in InstancesOf(f.id) :
                          x.has_labels =>
                             \A g \in KeyGroups(FolderGroupOf(f.id), x.labels) :
                                 GroupParents(g) = {FolderGroupOf(f.id)}

\* the order the claim prescribes, from the configuration and the answers:
\* cloud by cloud, folder by folder, instance by instance, cut where the
\* answers end
Stop == CallEvent("stop", <<>>)

ExpectedInstances(is, fname) ==
    [k \in DOMAIN is |-> CallEvent("process_instance", <<is[k].address, fname>>)]

ExpectedFolder(folder_id, cname, h) ==
    IF ~Known(FolderUrl(folder_id)) THEN <<GetEvent(FolderUrl(folder_id), h), Stop>>
    ELSE <<GetEvent(FolderUrl(folder_id), h),
           CallEvent("create_folder_group", <<FolderGroupOf(folder_id), cname>>),
           GetEvent(InstancesUrl(folder_id), h)>>
         \o (IF ~Known(InstancesUrl(folder_id)) THEN <<Stop>>
             ELSE ExpectedInstances(JsonGetList(api[InstancesUrl(folder_id)]),
                                    FolderGroupOf(folder_id)))

RECURSIVE ExpectedFolders(_, _, _)
ExpectedFolders(fs, cname, h) ==
    IF fs = <<>> THEN <<>>
    ELSE ExpectedFolder(Head(fs).id, cname, h) \o ExpectedFolders(Tail(fs), cname, h)

ExpectedCloud(cloud_id, h) ==
    IF ~Known(CloudUrl(cloud_id)) THEN <<GetEvent(CloudUrl(cloud_id), h), Stop>>
    ELSE <<GetEvent(CloudUrl(cloud_id), h),
           CallEvent("create_cloud_group", <<CloudGroupOf(cloud_id)>>),
           GetEvent(FoldersUrl(cloud_id), h)>>
         \o (IF ~Known(FoldersUrl(cloud_id)) THEN <<Stop>>
             ELSE ExpectedFolders(JsonGetList(api[FoldersUrl(cloud_id)]),
                                  CloudGroupOf(cloud_id), h))

RECURSIVE ExpectedClouds(_, _)
ExpectedClouds(ids, h) ==
    IF ids = <<>> THEN <<>>
    ELSE ExpectedCloud(Head(ids), h) \o ExpectedClouds(Tail(ids), h)

CutAtStop(s) ==
    LET stops == { k \in DOMAIN s : s[k] = Stop }
    IN IF stops = {} THEN s
       ELSE SubSeq(s, 1, (CHOOSE k \in stops : \A j \in stops : k <= j) - 1)

ExpectedTrace ==
    IF ~Known(TokenUrl) THEN <<PostEvent>>
    ELSE CutAtStop(<<PostEvent>>
                   \o ExpectedClouds(cloud_ids, <<"Bearer", api[TokenUrl].iamToken>>))

\* C10: requests and inventory calls happen in configuration and response
\* order, depth first: at every moment what has happened is a beginning of the
\* prescribed order, a completed run has done all of it, and at most one
\* request is outstanding, the one sent last.
C10_SequentialDepthFirst ==
    /\ IsPrefix(trace, ExpectedTrace)
    /\ pc = "done" => trace = ExpectedTrace
    /\ Cardinality(inflight) <= 1
    /\ inflight # {} => inflight = {trace[Len(trace)]}
    /\ pc = "process" => inflight = {}

C10_Witness ==
    /\ pc = "done"
    /\ Len(cloud_ids) = 1
    /\ Len(folders) = 2
    /\ \E k \in DOMAIN trace :
          /\ trace[k].op = "process_instance"
          /\ trace[k].arg[1] = << <<"c1", 1>>, 2 >>
          /\ \E j \in DOMAIN trace :
                j > k /\ trace[j] = GetEvent(FolderUrl(<<"c1", 2>>), Headers(iam_token))

====
